---------------------------- MODULE Spec2Model ----------------------------
(***************************************************************************)
(* NutriNova (nutrinova_app.py): a Streamlit script with a food tab, an    *)
(* exercise tab and a meal-planner tab over two external services.         *)
(*                                                                         *)
(* The module has two parts.  The first models the functions of the script *)
(* (search_food_usda, get_ai_insight, calculate_calories_burned and the    *)
(* nutrient extraction of the food tab) and calls each once on every input *)
(* of a bounded set (SpecUnit).  The second models the script body as      *)
(* Streamlit runs it: every interaction with a widget executes the script  *)
(* again from its first line to its last (Spec).                           *)
(*                                                                         *)
(* Values that are used more than once are passed as operator parameters.  *)
(***************************************************************************)
EXTENDS Integers, Sequences, FiniteSets, TLC

VARIABLES
    call,        \* SpecUnit: a function call, its arguments and its outcome
    widgets,     \* Spec: the session's widget values
    screen,      \* Spec: what the last script run displayed
    trace        \* Spec: the steps the last script run took, in order

vars == <<call, widgets, screen, trace>>

Min(a, b) == IF a < b THEN a ELSE b

(***************************************************************************)
(* Python floats are IEEE-754 binary64.  TLC's integers are 32 bits wide,  *)
(* so a 53-bit significand is kept as a little-endian sequence of limbs.   *)
(* A float is [m |-> significand of MantBits bits, e |-> exponent]: m*2^e. *)
(***************************************************************************)
Base == 2^15
MantBits == 53

RECURSIVE IntBitLen(_)
IntBitLen(n) == IF n = 0 THEN 0 ELSE 1 + IntBitLen(n \div 2)

LimbBits == IntBitLen(Base) - 1

RECURSIVE BigTrim(_)
BigTrim(a) ==
    IF a # <<>> /\ a[Len(a)] = 0 THEN BigTrim(SubSeq(a, 1, Len(a) - 1)) ELSE a

RECURSIVE BigMulSmall(_, _, _)
BigMulSmall(a, k, carry) ==
    IF a = <<>>
    THEN IF carry = 0 THEN <<>>
         ELSE <<carry % Base>> \o BigMulSmall(<<>>, k, carry \div Base)
    ELSE <<(Head(a) * k + carry) % Base>>
         \o BigMulSmall(Tail(a), k, (Head(a) * k + carry) \div Base)

\* one step of the long division: the limb below the quotient hi so far
DivStep(hi, limb, k) ==
    [q |-> <<(hi.r * Base + limb) \div k>> \o hi.q, r |-> (hi.r * Base + limb) % k]

RECURSIVE BigDivSmall(_, _)
BigDivSmall(a, k) ==
    IF a = <<>> THEN [q |-> <<>>, r |-> 0]
    ELSE DivStep(BigDivSmall(Tail(a), k), Head(a), k)

RECURSIVE BigAddSmall(_, _)
BigAddSmall(a, c) ==
    IF c = 0 THEN a
    ELSE IF a = <<>> THEN <<c>>
    ELSE <<(Head(a) + c) % Base>> \o BigAddSmall(Tail(a), (Head(a) + c) \div Base)

TrimmedBitLen(t) ==
    IF t = <<>> THEN 0 ELSE LimbBits * (Len(t) - 1) + IntBitLen(t[Len(t)])

BigBitLen(a) == TrimmedBitLen(BigTrim(a))

RECURSIVE BigToInt(_)
BigToInt(a) == IF a = <<>> THEN 0 ELSE Head(a) + Base * BigToInt(Tail(a))

BigShl(a, s) ==
    [i \in 1..(s \div LimbBits) |-> 0] \o BigMulSmall(a, 2^(s % LimbBits), 0)

ShrResult(d, dropped) ==
    [q      |-> BigTrim(d.q),
     sticky |-> d.r # 0 \/ \E i \in 1..Len(dropped) : dropped[i] # 0]

ShrLimbs(a, nl, nb) ==
    ShrResult(BigDivSmall(SubSeq(a, nl + 1, Len(a)), 2^nb), SubSeq(a, 1, nl))

\* a shifted right by s bits; sticky says whether a one was shifted out
BigShr(a, s) == ShrLimbs(a, Min(s \div LimbBits, Len(a)), s % LimbBits)

\* a significand that rounding carried to one bit too many
Renormalize(m, e) ==
    IF BigBitLen(m) > MantBits
    THEN [m |-> BigTrim(BigDivSmall(m, 2).q), e |-> e + 1]
    ELSE [m |-> m, e |-> e]

\* h.q is the significand truncated, h.r the first bit cut off, sticky the
\* bits below it: round to nearest, ties to even
RoundHalf(h, e, sticky) ==
    Renormalize(IF h.r = 1 /\ (sticky \/ h.q[1] % 2 = 1)
                THEN BigAddSmall(BigTrim(h.q), 1)
                ELSE BigTrim(h.q),
                e)

RoundShifted(g, e, sticky) == RoundHalf(BigDivSmall(g.q, 2), e, g.sticky \/ sticky)

RoundBits(p, e, sticky, bits) ==
    IF bits <= MantBits
    THEN [m |-> BigTrim(BigShl(p, MantBits - bits)), e |-> e - (MantBits - bits)]
    ELSE RoundShifted(BigShr(p, bits - MantBits - 1), e + (bits - MantBits), sticky)

\* The float nearest to p * 2^e (plus a positive fraction of 2^e when sticky)
RoundToDouble(p, e, sticky) == RoundBits(p, e, sticky, BigBitLen(p))

RoundQuotient(d, e) == RoundToDouble(BigTrim(d.q), e, d.r # 0)

\* x * (k * 2^j) for a float x and a small integer k: one IEEE multiplication
FloatMul(x, k, j) == RoundToDouble(BigMulSmall(x.m, k, 0), x.e + j, FALSE)

\* x / k for a float x and a small integer k: one IEEE division
FloatDiv(x, k) ==
    RoundQuotient(BigDivSmall(BigShl(x.m, 2 * LimbBits), k), x.e - 2 * LimbBits)

\* The float a decimal literal n/10 denotes (9.8 is FloatOfTenths(98))
FloatOfTenths(n) ==
    RoundQuotient(BigDivSmall(BigShl(BigMulSmall(<<1>>, n, 0), 4 * LimbBits), 10),
                  0 - 4 * LimbBits)

\* h2 is twice the value in hundredths, truncated; sticky what was cut off
HalfEven(h2, sticky) ==
    IF h2 % 2 = 1 /\ (sticky \/ (h2 \div 2) % 2 = 1) THEN h2 \div 2 + 1 ELSE h2 \div 2

RoundHundredths(g) == HalfEven(BigToInt(g.q), g.sticky)

\* Python's round(x, 2), as a count of hundredths: the decimal with two
\* places nearest to the exact value of the float x, ties to even.
Round2(x) == RoundHundredths(BigShr(BigMulSmall(x.m, 200, 0), 0 - x.e))

(***************************************************************************)
(* EXERCISE_MET, in tenths (the literals of lines 21-26 have one decimal). *)
(***************************************************************************)
EXERCISE_MET ==
    [e \in {"Running (6 mph)", "Cycling (moderate)", "Walking (brisk)",
            "Swimming", "Yoga", "Weightlifting"} |->
        CASE e = "Running (6 mph)"    -> 98
          [] e = "Cycling (moderate)" -> 75
          [] e = "Walking (brisk)"    -> 38
          [] e = "Swimming"           -> 60
          [] e = "Yoga"               -> 25
          [] e = "Weightlifting"      -> 60]

Exercises == DOMAIN EXERCISE_MET

\* EXERCISE_MET[exercise]: a dict lookup raises KeyError on a missing key
MetLookup(exercise) ==
    IF exercise \in DOMAIN EXERCISE_MET
    THEN [raised |-> "", value |-> FloatOfTenths(EXERCISE_MET[exercise])]
    ELSE [raised |-> "KeyError", value |-> <<>>]

\* a plausible slip: the integer 3 for the factor 3.5
MetFormulaWholeFactor(met, weight_kg, duration_min) ==
    FloatMul(FloatDiv(FloatMul(FloatMul(met, 3, 0), weight_kg, 0), 200),
             duration_min, 0)

\* met * 3.5 * weight_kg / 200 * duration_min, left to right, in floats
MetFormula(met, weight_kg, duration_min) ==
    FloatMul(FloatDiv(FloatMul(FloatMul(met, 7, -1), weight_kg, 0), 200),
             duration_min, 0)

\* lines 75-77, with the outcome of EXERCISE_MET[exercise]
CaloriesOf(met, weight_kg, duration_min) ==
    IF met.raised # ""
    THEN [raised |-> met.raised, value |-> 0, formula |-> FALSE]
    ELSE [raised  |-> "",
          value   |-> Round2(MetFormula(met.value, weight_kg, duration_min)),
          formula |-> TRUE]

\* a plausible slip: no test of the exercise before it is looked up
calculate_calories_burned_unguarded(weight_kg, exercise, duration_min) ==
    CaloriesOf(MetLookup(exercise), weight_kg, duration_min)

\* calculate_calories_burned: the result in hundredths of a calorie, whether
\* the formula was evaluated, and the exception raised ("" for none).
calculate_calories_burned(weight_kg, exercise, duration_min) ==
    IF exercise \notin DOMAIN EXERCISE_MET
    THEN [raised |-> "", value |-> 0, formula |-> FALSE]
    ELSE CaloriesOf(MetLookup(exercise), weight_kg, duration_min)

(***************************************************************************)
(* Python strings, exceptions and dicts.                                   *)
(***************************************************************************)
StartsWith(s, prefix) ==
    Len(s) >= Len(prefix) /\ SubSeq(s, 1, Len(prefix)) = prefix

Contains(s, part) ==
    \E i \in 1..(Len(s) - Len(part) + 1) : SubSeq(s, i, i + Len(part) - 1) = part

Digit(n) == SubSeq("0123456789", n + 1, n + 1)

\* str(n) of an int n >= 0
RECURSIVE IntStr(_)
IntStr(n) == IF n < 10 THEN Digit(n) ELSE IntStr(n \div 10) \o Digit(n % 10)

\* repr of the float h/100: the shortest decimal that reads back as it
FloatStr(h) ==
    IntStr(h \div 100) \o "." \o
    (IF h % 10 = 0 THEN Digit((h % 100) \div 10)
     ELSE Digit((h % 100) \div 10) \o Digit(h % 10))

\* The base class of each exception class the two services and the
\* interpreter raise in this script.
ExceptionBase ==
    [c \in {"Exception", "ConnectionError", "JSONDecodeError", "APIConnectionError",
            "AuthenticationError", "RateLimitError", "IndexError", "KeyError"} |->
        IF c = "Exception" THEN "BaseException" ELSE "Exception"]

RECURSIVE IsInstance(_, _)
IsInstance(exc, class) ==
    \/ exc = class
    \/ exc \in DOMAIN ExceptionBase /\ IsInstance(ExceptionBase[exc], class)

\* str(e)
ExceptionStr(exc) ==
    CASE exc = "APIConnectionError"  -> "Connection error."
      [] exc = "AuthenticationError" -> "Error code: 401"
      [] exc = "RateLimitError"      -> "Error code: 429"
      [] exc = "IndexError"          -> "list index out of range"
      [] OTHER                       -> exc

\* a plausible slip: a key already there keeps its first value
DictSetFirst(d, k, v) ==
    IF \E i \in 1..Len(d) : d[i][1] = k THEN d ELSE Append(d, <<k, v>>)

\* A dict is the sequence of its <<key, value>> items in insertion order.
\* d[k] = v keeps the place of a key already there and replaces its value.
DictSet(d, k, v) ==
    IF \E i \in 1..Len(d) : d[i][1] = k
    THEN [i \in 1..Len(d) |-> IF d[i][1] = k THEN <<k, v>> ELSE d[i]]
    ELSE Append(d, <<k, v>>)

\* {key: value for ... in items}: the items are stored from first to last
RECURSIVE DictOf(_)
DictOf(items) ==
    IF items = <<>> THEN <<>>
    ELSE DictSet(DictOf(SubSeq(items, 1, Len(items) - 1)),
                 items[Len(items)][1], items[Len(items)][2])

DictKeys(d) == [i \in 1..Len(d) |-> d[i][1]]

DictGet(d, k) == d[CHOOSE i \in 1..Len(d) : d[i][1] = k][2]

\* repr of a dict of str keys and int values: {'Protein': 1, 'Energy': 89}
RECURSIVE DictItemsStr(_)
DictItemsStr(d) ==
    IF d = <<>> THEN ""
    ELSE (IF Len(d) = 1 THEN "" ELSE DictItemsStr(SubSeq(d, 1, Len(d) - 1)) \o ", ")
         \o "'" \o d[Len(d)][1] \o "': " \o IntStr(d[Len(d)][2])

DictStr(d) == "{" \o DictItemsStr(d) \o "}"

(***************************************************************************)
(* search_food_usda.  http is what requests.get does: it raises, or it     *)
(* returns a response with a status code and a body; the body is the JSON  *)
(* text of an object (kind "object", data) or no JSON at all (kind "text").*)
(***************************************************************************)
\* A step of a script run: the operation, its argument, the exception it
\* raised ("" for none) and what it returned
Step(tab, op, arg, raised, out) ==
    [tab |-> tab, op |-> op, arg |-> arg, raised |-> raised, out |-> out]

\* line 37: the GET and what came of it
Requested(query, http) ==
    Step("food", "requests.get", query, http.raised, http.status_code)

\* response.json()
ResponseJson(body) ==
    IF body.kind = "object" THEN [raised |-> "", value |-> body.data]
    ELSE [raised |-> "JSONDecodeError", value |-> <<>>]

\* lines 39-42, with the outcome of response.json()
FoodsOf(data, steps) ==
    IF data.raised # ""
    THEN [raised |-> data.raised, value |-> <<>>,
          steps  |-> Append(steps, Step("food", "response.json", "", data.raised, 0))]
    ELSE IF "foods" \in DOMAIN data.value /\ Len(data.value.foods) > 0
    THEN [raised |-> "", value |-> data.value.foods,
          steps  |-> Append(steps, Step("food", "response.json", "", "", 0))]
    ELSE [raised |-> "", value |-> <<>>,
          steps  |-> Append(steps, Step("food", "response.json", "", "", 0))]

\* a repair the script does not make: every fault of the lookup caught and
\* turned into the empty result
search_food_usda_caught(query, http) ==
    IF http.raised # "" \/ http.status_code # 200
    THEN [raised |-> "", value |-> <<>>, steps |-> <<Requested(query, http)>>]
    ELSE [FoodsOf(ResponseJson(http.body), <<Requested(query, http)>>)
            EXCEPT !.raised = ""]

search_food_usda(query, http) ==
    IF http.raised # ""
    THEN [raised |-> http.raised, value |-> <<>>, steps |-> <<Requested(query, http)>>]
    ELSE IF http.status_code = 200
    THEN FoodsOf(ResponseJson(http.body), <<Requested(query, http)>>)
    ELSE [raised |-> "", value |-> <<>>, steps |-> <<Requested(query, http)>>]

(***************************************************************************)
(* get_ai_insight.  completion is what client.chat.completions.create      *)
(* does: it raises, or it returns a response with a list of choices.       *)
(***************************************************************************)
\* response.choices[0].message.content
FirstChoiceContent(response) ==
    IF Len(response.choices) = 0 THEN [raised |-> "IndexError", value |-> ""]
    ELSE [raised |-> "", value |-> response.choices[1].message.content]

\* lines 48-57: the body of the try
InsightTry(completion) ==
    IF completion.raised # "" THEN [raised |-> completion.raised, value |-> ""]
    ELSE FirstChoiceContent(completion.response)

\* a plausible slip: an except clause for the client's connection errors only
InsightHandlerNarrow == "APIConnectionError"

\* the class of the except clause of get_ai_insight
InsightHandler == "Exception"

\* lines 58-59
InsightExcept(tried) ==
    IF tried.raised # "" /\ IsInstance(tried.raised, InsightHandler)
    THEN [raised |-> "", value |-> "AI API Error: " \o ExceptionStr(tried.raised)]
    ELSE tried

get_ai_insight(prompt, completion) == InsightExcept(InsightTry(completion))

(***************************************************************************)
(* The food tab's nutrient extraction (lines 118-119).                     *)
(***************************************************************************)
NUTRIENT_LIMIT == 5

\* a plausible slip: the slice off by one
FirstNutrientsOffByOne(food_data) ==
    SubSeq(food_data.foodNutrients, 1,
           Min(NUTRIENT_LIMIT + 1, Len(food_data.foodNutrients)))

\* food_data["foodNutrients"][:5]
FirstNutrients(food_data) ==
    SubSeq(food_data.foodNutrients, 1, Min(NUTRIENT_LIMIT, Len(food_data.foodNutrients)))

NutrientDict(first) ==
    DictOf([i \in 1..Len(first) |-> <<first[i].nutrientName, first[i].value>>])

\* {n["nutrientName"]: n["value"] for n in food_data["foodNutrients"][:5]}
ExtractNutrients(food_data) == NutrientDict(FirstNutrients(food_data))

(***************************************************************************)
(* What the two services can answer, and what the user can enter.          *)
(***************************************************************************)
Nutrient(name, value) == [nutrientName |-> name, value |-> value]

Food(description, nutrients) ==
    [description |-> description, foodNutrients |-> nutrients]

\* Records the food database can return: two records share a description,
\* one has more nutrients than are shown, one repeats a nutrient name, one
\* has no description.
FoodCatalogue ==
    << Food("Bananas, raw",
            << Nutrient("Protein", 1), Nutrient("Total lipid (fat)", 0),
               Nutrient("Carbohydrate, by difference", 23), Nutrient("Energy", 89),
               Nutrient("Sugars", 12), Nutrient("Fiber", 3), Nutrient("Protein", 7) >>),
       Food("Bananas, raw",
            << Nutrient("Energy", 98), Nutrient("Protein", 2), Nutrient("Energy", 410) >>),
       Food("Apple", << Nutrient("Energy", 52) >>),
       Food("", << >>) >>

MaxFoods == 2

\* The result lists: up to MaxFoods different records of the catalogue
FoodLists ==
    {l \in UNION {[1..n -> 1..Len(FoodCatalogue)] : n \in 1..MaxFoods} :
        \A i, j \in 1..Len(l) : i # j => l[i] # l[j]}

FoodList(l) == [i \in 1..Len(l) |-> FoodCatalogue[l[i]]]

Bodies ==
    {[kind |-> "text"]}
    \cup {[kind |-> "object", data |-> [message |-> "Not Found"]]}
    \cup {[kind |-> "object", data |-> [foods |-> <<>>]]}
    \cup {[kind |-> "object", data |-> [foods |-> FoodList(l)]] : l \in FoodLists}

NoBody == [kind |-> "text"]

HttpOutcomes ==
    {[raised |-> "ConnectionError", status_code |-> 0, body |-> NoBody]}
    \cup {[raised |-> "", status_code |-> s, body |-> b] : s \in {200, 404}, b \in Bodies}

Choice(content) == [message |-> [content |-> content]]

Completions ==
    {[raised |-> e, response |-> [choices |-> <<>>]] :
        e \in {"APIConnectionError", "AuthenticationError", "RateLimitError"}}
    \cup {[raised |-> "", response |-> [choices |-> c]] :
            c \in {<<>>, <<Choice("Eat more fruit.")>>,
                   <<Choice("Plenty of potassium."), Choice("Second choice.")>>}}

MIN_WEIGHT == 30
MAX_WEIGHT == 200
MIN_DURATION == 5
MAX_DURATION == 300

WeightSamples == 17
DurationSamples == 59
Weights ==
    {MIN_WEIGHT + 10 * i : i \in 0..WeightSamples} \cap MIN_WEIGHT..MAX_WEIGHT
Durations ==
    {MIN_DURATION + 5 * i : i \in 0..DurationSamples} \cap MIN_DURATION..MAX_DURATION
ExerciseNames == Exercises \cup {"Unknown Sport", ""}

MaxNutrients == 6
NutrientLists ==
    UNION {[1..n -> {Nutrient(name, v) : name \in {"Protein", "Energy"}, v \in {1, 2}}] :
             n \in 0..MaxNutrients}

Prompts == {"", "Create a Keto meal plan for 1 day with around 2000 calories."}

Pending(fn, args) ==
    [fn |-> fn, args |-> args, state |-> "pending", result |-> [raised |-> ""]]

NoCall == Pending("none", <<>>)

(***************************************************************************)
(* The script body (lines 84-162).  Streamlit executes it from top to      *)
(* bottom once when the session opens and once more after every            *)
(* interaction: a widget returns its current value, a button returns True  *)
(* only in the run its press started.  An uncaught exception ends the run  *)
(* at the line that raised it; the widget values are kept.                 *)
(***************************************************************************)
NoSelect == [options |-> <<>>, index |-> 0]

\* st.selectbox(label, options): the first option, or the option the user
\* chose among these same options; another list of options is a new widget.
Selectbox(state, options) ==
    IF state.options = options THEN state ELSE [options |-> options, index |-> 1]

NoFood ==
    [view |-> "idle", message |-> "", options |-> <<>>, selected |-> "",
     nutrients |-> <<>>, ai_response |-> "", chart |-> <<>>]

\* pd.DataFrame([nutrients], index=[selected_food]).reset_index().rename(...)
\* melted by plot_nutrition: one (Food, Nutrient, Amount) row per nutrient
plot_nutrition(selected_food, nutrients) ==
    [i \in 1..Len(nutrients) |->
        [Food |-> selected_food, Nutrient |-> nutrients[i][1], Amount |-> nutrients[i][2]]]

\* line 125
FoodPrompt(selected_food, nutrients) ==
    "Give me a quick analysis of " \o selected_food
    \o " with these nutrients: " \o DictStr(nutrients)

\* lines 128-133, with what get_ai_insight did
FoodAnswered(select, shown, steps, selected_food, nutrients, ai_response) ==
    IF ai_response.raised # ""
    THEN [raised |-> ai_response.raised, select |-> select, steps |-> steps,
          shown |-> shown]
    ELSE [raised |-> "", select |-> select,
          steps  |-> Append(steps, Step("food", "plot_nutrition", selected_food, "",
                                        plot_nutrition(selected_food, nutrients))),
          shown  |-> [shown EXCEPT !.chart = plot_nutrition(selected_food, nutrients)]]

\* line 126, with what get_ai_insight did
FoodInsight(select, shown, steps, selected_food, nutrients, user_prompt, ai_response) ==
    FoodAnswered(select,
                 [shown EXCEPT !.ai_response = ai_response.value],
                 Append(steps, Step("food", "get_ai_insight", user_prompt,
                                    ai_response.raised, ai_response.value)),
                 selected_food, nutrients, ai_response)

\* lines 125-126
FoodAsked(select, shown, steps, selected_food, nutrients, user_prompt, completion) ==
    FoodInsight(select, shown, steps, selected_food, nutrients, user_prompt,
                get_ai_insight(user_prompt, completion))

\* lines 119-122, with the record of the selection
FoodExtracted(select, shown, steps, selected_food, food_data, nutrients, completion) ==
    FoodAsked(select,
              [shown EXCEPT !.view = "selected", !.nutrients = nutrients],
              Append(steps, Step("food", "extract", food_data, "", nutrients)),
              selected_food, nutrients,
              FoodPrompt(selected_food, nutrients), completion)

FoodLookedUp(select, shown, steps, selected_food, food_data, completion) ==
    FoodExtracted(select, shown, steps, selected_food, food_data,
                  ExtractNutrients(food_data), completion)

\* lines 118-133: the selected food's nutrients, insight and chart
FoodSelected(select, shown, steps, food_choices, selected_food, completion) ==
    FoodLookedUp(select, shown, steps, selected_food,
                 DictGet(food_choices, selected_food), completion)

\* lines 113 and 115: the count of the results and the selection control
ResultsShown(w, foods, select) ==
    [NoFood EXCEPT
        !.view = "results",
        !.message = "Found " \o IntStr(Len(foods)) \o " results for **"
                    \o w.food_query \o "**",
        !.options = select.options,
        !.selected = select.options[select.index]]

\* a plausible slip: the selection is not tested before it is used
FoodChosenUntested(w, foods, steps, completion, food_choices, select) ==
    FoodSelected(select, ResultsShown(w, foods, select), steps, food_choices,
                 select.options[select.index], completion)

\* line 117: if selected_food
FoodChosen(w, foods, steps, completion, food_choices, select) ==
    IF select.options[select.index] # ""
    THEN FoodSelected(select, ResultsShown(w, foods, select), steps, food_choices,
                      select.options[select.index], completion)
    ELSE [raised |-> "", select |-> select, steps |-> steps,
          shown |-> ResultsShown(w, foods, select)]

\* line 115
FoodListed(w, foods, steps, completion, food_choices) ==
    FoodChosen(w, foods, steps, completion, food_choices,
               Selectbox(w.select, DictKeys(food_choices)))

\* lines 113-133: a non-empty result list; line 114 builds food_choices
FoodResults(w, foods, steps, completion) ==
    FoodListed(w, foods, steps, completion,
               DictOf([i \in 1..Len(foods) |-> <<foods[i].description, foods[i]>>]))

\* lines 111-135, with what search_food_usda did
FoodSearched(w, foods, steps, completion) ==
    IF foods.raised # ""
    THEN [raised |-> foods.raised, select |-> w.select, steps |-> steps, shown |-> NoFood]
    ELSE IF foods.value # <<>>
    THEN FoodResults(w, foods.value,
                     Append(steps, Step("food", "search_food_usda", w.food_query, "",
                                        foods.value)),
                     completion)
    ELSE [raised |-> "", select |-> NoSelect,
          steps  |-> Append(steps, Step("food", "search_food_usda", w.food_query, "",
                                        foods.value)),
          shown  |-> [NoFood EXCEPT !.view = "no results",
                         !.message = "No results found. Try another food name."]]

\* line 111
FoodCalled(w, foods, completion) == FoodSearched(w, foods, foods.steps, completion)

\* a plausible slip: the lookup runs whatever the query
FoodTabUnguarded(w, http, completion) ==
    FoodCalled(w, search_food_usda(w.food_query, http), completion)

\* lines 108-135
FoodTab(w, http, completion) ==
    IF w.food_query # ""
    THEN FoodCalled(w, search_food_usda(w.food_query, http), completion)
    ELSE [raised |-> "", select |-> NoSelect, steps |-> <<>>, shown |-> NoFood]

\* line 148
ExerciseShown(w, burned) ==
    [raised |-> burned.raised,
     steps  |-> <<Step("exercise", "calculate_calories_burned", w.exercise,
                       burned.raised, burned.value)>>,
     shown  |-> "You burned approximately **"
                \o (IF burned.formula THEN FloatStr(burned.value)
                    ELSE IntStr(burned.value))
                \o " calories** doing " \o w.exercise \o " for "
                \o IntStr(w.duration) \o " minutes."]

\* lines 140-148
ExerciseTab(w, button) ==
    IF button = "Calculate Calories Burned"
    THEN ExerciseShown(w, calculate_calories_burned(w.weight, w.exercise, w.duration))
    ELSE [raised |-> "", steps |-> <<>>, shown |-> ""]

\* line 159
MealPrompt(w) ==
    "Create a " \o w.diet_type \o " meal plan for 1 day with around "
    \o IntStr(w.daily_calories)
    \o " calories. Show breakfast, lunch, dinner, and snacks."

\* lines 160-162
MealShown(prompt, meal_plan) ==
    [raised |-> meal_plan.raised,
     steps  |-> <<Step("meal", "get_ai_insight", prompt, meal_plan.raised,
                       meal_plan.value)>>,
     shown  |-> meal_plan.value]

MealAsked(prompt, completion) == MealShown(prompt, get_ai_insight(prompt, completion))

\* lines 153-162
MealTab(w, button, completion) ==
    IF button = "Generate Meal Plan"
    THEN MealAsked(MealPrompt(w), completion)
    ELSE [raised |-> "", steps |-> <<>>, shown |-> ""]

\* a tab the run did not reach
NotRun(raised) == [raised |-> raised, steps |-> <<>>, shown |-> ""]

\* what a run leaves: the widget values, the page and the steps it took
Page(w, food, exercise, meal) ==
    [widgets |-> [w EXCEPT !.select = food.select],
     screen  |-> [exception |-> meal.raised,
                  dark      |-> w.dark_mode,
                  food      |-> food.shown,
                  exercise  |-> exercise.shown,
                  meal      |-> meal.shown],
     trace   |-> food.steps \o exercise.steps \o meal.steps]

AfterExercise(w, button, meal_completion, food, exercise) ==
    Page(w, food, exercise,
         IF exercise.raised # "" THEN NotRun(exercise.raised)
         ELSE MealTab(w, button, meal_completion))

AfterFood(w, button, meal_completion, food) ==
    AfterExercise(w, button, meal_completion, food,
                  IF food.raised # "" THEN NotRun(food.raised)
                  ELSE ExerciseTab(w, button))

\* One execution of the script
RunScript(w, button, http, food_completion, meal_completion) ==
    AfterFood(w, button, meal_completion, FoodTab(w, http, food_completion))

(***************************************************************************)
(* Spec: the session.                                                      *)
(***************************************************************************)
DefaultWidgets ==
    [dark_mode |-> FALSE, food_query |-> "", select |-> NoSelect,
     weight |-> 70, exercise |-> "Running (6 mph)", duration |-> 30,
     daily_calories |-> 2000, diet_type |-> "Balanced"]

FoodQueries == {"", "banana"}
WeightInputs == {70, MAX_WEIGHT}
ExerciseInputs == {"Running (6 mph)", "Yoga"}
DurationInputs == {30, MIN_DURATION}
CalorieInputs == {2000, 1200}
DietInputs == {"Balanced", "Keto"}

NoHttp == [raised |-> "", status_code |-> 0, body |-> NoBody]
NoCompletion == [raised |-> "", response |-> [choices |-> <<>>]]

\* What the completion service answers in a session: a text, a refusal of
\* the key, a response without choices
SessionCompletions ==
    {c \in Completions :
        /\ c.raised \in {"", "AuthenticationError"}
        /\ Len(c.response.choices) <= 1}

\* The result lists the food database answers in a session, as indices of
\* the catalogue
SessionFoodLists == {<<1, 2>>, <<3, 1>>, <<2, 4>>}

\* What the food database answers in a session
SessionHttp ==
    {h \in HttpOutcomes :
        \/ h.raised # ""
        \/ h.status_code = 404 /\ h.body.kind = "text"
        \/ /\ h.status_code = 200
           /\ \/ h.body.kind = "text"
              \/ "foods" \in DOMAIN h.body.data
                 /\ \/ h.body.data.foods = <<>>
                    \/ \E l \in SessionFoodLists : h.body.data.foods = FoodList(l)}

Shown(run) ==
    /\ widgets' = run.widgets
    /\ screen' = run.screen
    /\ trace' = run.trace
    /\ UNCHANGED call

\* The script runs with the widget values w; the services answer as they will.
Rerun(w, button) ==
    \E http \in IF w.food_query # "" THEN SessionHttp ELSE {NoHttp} :
    \E fc \in IF w.food_query # "" /\ search_food_usda(w.food_query, http).value # <<>>
              THEN SessionCompletions ELSE {NoCompletion} :
    \E mc \in IF button = "Generate Meal Plan" THEN SessionCompletions ELSE {NoCompletion} :
        Shown(RunScript(w, button, http, fc, mc))

FirstRun(run) ==
    /\ call = NoCall
    /\ widgets = run.widgets
    /\ screen = run.screen
    /\ trace = run.trace

Init == FirstRun(RunScript(DefaultWidgets, "", NoHttp, NoCompletion, NoCompletion))

\* The sidebar and the food tab's text input are drawn before anything can raise
ToggleDarkMode == Rerun([widgets EXCEPT !.dark_mode = ~widgets.dark_mode], "")

EnterFoodQuery ==
    \E q \in FoodQueries \ {widgets.food_query} :
        Rerun([widgets EXCEPT !.food_query = q], "")

SelectFood ==
    /\ screen.food.options # <<>>
    /\ \E i \in 1..Len(widgets.select.options) \ {widgets.select.index} :
          Rerun([widgets EXCEPT !.select.index = i], "")

\* The widgets of the other two tabs are drawn only by a run that reaches them
TabsDrawn == screen.exception = ""

EnterWeight ==
    /\ TabsDrawn
    /\ \E v \in WeightInputs \ {widgets.weight} : Rerun([widgets EXCEPT !.weight = v], "")

SelectExercise ==
    /\ TabsDrawn
    /\ \E v \in ExerciseInputs \ {widgets.exercise} :
          Rerun([widgets EXCEPT !.exercise = v], "")

EnterDuration ==
    /\ TabsDrawn
    /\ \E v \in DurationInputs \ {widgets.duration} :
          Rerun([widgets EXCEPT !.duration = v], "")

PressCalculate == TabsDrawn /\ Rerun(widgets, "Calculate Calories Burned")

EnterDailyCalories ==
    /\ TabsDrawn
    /\ \E v \in CalorieInputs \ {widgets.daily_calories} :
          Rerun([widgets EXCEPT !.daily_calories = v], "")

SelectDiet ==
    /\ TabsDrawn
    /\ \E v \in DietInputs \ {widgets.diet_type} :
          Rerun([widgets EXCEPT !.diet_type = v], "")

PressGenerateMealPlan == TabsDrawn /\ Rerun(widgets, "Generate Meal Plan")

Next ==
    \/ ToggleDarkMode
    \/ EnterFoodQuery
    \/ SelectFood
    \/ EnterWeight
    \/ SelectExercise
    \/ EnterDuration
    \/ PressCalculate
    \/ EnterDailyCalories
    \/ SelectDiet
    \/ PressGenerateMealPlan

Spec == Init /\ [][Next]_vars

(***************************************************************************)
(* SpecUnit: each function, called once on every input.                    *)
(***************************************************************************)
Done(result) ==
    [call EXCEPT !.state  = IF result.raised # "" THEN "raised" ELSE "returned",
                 !.result = result]

UnitInit ==
    /\ call \in
         {Pending("calculate_calories_burned", <<w, e, d>>) :
             w \in Weights, e \in ExerciseNames, d \in Durations}
         \cup {Pending("search_food_usda", <<"banana", h>>) : h \in HttpOutcomes}
         \cup {Pending("get_ai_insight", <<p, c>>) : p \in Prompts, c \in Completions}
         \cup {Pending("extract", <<Food("Bananas, raw", n)>>) : n \in NutrientLists}
    /\ widgets = <<>>
    /\ screen = <<>>
    /\ trace = <<>>

CallCalculate ==
    /\ call.fn = "calculate_calories_burned" /\ call.state = "pending"
    /\ call' = Done(calculate_calories_burned(call.args[1], call.args[2], call.args[3]))
    /\ UNCHANGED <<widgets, screen, trace>>

CallSearch ==
    /\ call.fn = "search_food_usda" /\ call.state = "pending"
    /\ call' = Done(search_food_usda(call.args[1], call.args[2]))
    /\ UNCHANGED <<widgets, screen, trace>>

CallInsight ==
    /\ call.fn = "get_ai_insight" /\ call.state = "pending"
    /\ call' = Done(get_ai_insight(call.args[1], call.args[2]))
    /\ UNCHANGED <<widgets, screen, trace>>

CallExtract ==
    /\ call.fn = "extract" /\ call.state = "pending"
    /\ call' = Done([raised |-> "", value |-> ExtractNutrients(call.args[1])])
    /\ UNCHANGED <<widgets, screen, trace>>

UnitNext == CallCalculate \/ CallSearch \/ CallInsight \/ CallExtract

SpecUnit == UnitInit /\ [][UnitNext]_vars

Called(fn) == call.fn = fn /\ call.state # "pending"

(***************************************************************************)
(* C1: for every exercise of EXERCISE_MET, every weight in [30,200] and    *)
(* every duration in [5,300], calculate_calories_burned returns            *)
(* met * 3.5 * w / 200 * d rounded to two decimal places: a count of       *)
(* hundredths within half a hundredth of the exact value, and 360.15 for   *)
(* 70 kg of "Running (6 mph)" for 30 minutes.                              *)
(***************************************************************************)
C1_CaloriesRounded ==
    (Called("calculate_calories_burned") /\ call.args[2] \in Exercises) =>
        LET w == call.args[1]
            d == call.args[3]
            exact200 == EXERCISE_MET[call.args[2]] * 35 * w * d
            diff == 200 * call.result.value - exact200
        IN  /\ call.state = "returned"
            /\ call.result.formula
            /\ -100 <= diff /\ diff <= 100
            /\ (w = 70 /\ call.args[2] = "Running (6 mph)" /\ d = 30)
                  => call.result.value = 36015

C1_Witness ==
    /\ Called("calculate_calories_burned")
    /\ call.args = <<70, "Running (6 mph)", 30>>
    /\ call.result.value = 36015

(***************************************************************************)
(* C2: for an exercise name that is no key of EXERCISE_MET, and every      *)
(* weight and duration, calculate_calories_burned returns 0, raises        *)
(* nothing and does not evaluate the MET formula.                          *)
(***************************************************************************)
C2_UnknownExerciseIsZero ==
    (Called("calculate_calories_burned") /\ call.args[2] \notin Exercises) =>
        /\ call.state = "returned"
        /\ call.result.value = 0
        /\ ~call.result.formula

C2_Witness ==
    /\ Called("calculate_calories_burned")
    /\ call.args = <<70, "Unknown Sport", 30>>
    /\ call.state = "returned"
    /\ call.result.value = 0

(***************************************************************************)
(* C3: get_ai_insight raises nothing past its boundary: when the           *)
(* completion call fails (network, authentication, quota, a response       *)
(* without choices) it returns a string that begins with "AI API Error:",  *)
(* and when the call succeeds it returns the generated text.               *)
(***************************************************************************)
CompletionFailed(completion) ==
    completion.raised # "" \/ completion.response.choices = <<>>

C3_InsightNeverRaises ==
    Called("get_ai_insight") =>
        /\ call.state = "returned"
        /\ IF CompletionFailed(call.args[2])
           THEN StartsWith(call.result.value, "AI API Error:")
           ELSE call.result.value = call.args[2].response.choices[1].message.content

C3_Witness ==
    /\ Called("get_ai_insight")
    /\ call.args[2].raised = "RateLimitError"
    /\ call.result.value = "AI API Error: Error code: 429"

(***************************************************************************)
(* C4: search_food_usda returns the foods array exactly when the response  *)
(* has status 200 and a body with a non-empty foods array; for every       *)
(* non-200 response, malformed body, body without foods and empty foods    *)
(* array it returns an empty sequence.                                     *)
(***************************************************************************)
HasFoods(http) ==
    /\ http.status_code = 200
    /\ http.body.kind = "object"
    /\ "foods" \in DOMAIN http.body.data
    /\ http.body.data.foods # <<>>

C4_FoodsOrEmpty ==
    (Called("search_food_usda") /\ call.args[2].raised = "") =>
        /\ call.state = "returned"
        /\ call.result.value =
             IF HasFoods(call.args[2]) THEN call.args[2].body.data.foods ELSE <<>>

(***************************************************************************)
(* C5: whatever the length of a record's foodNutrients, the extracted      *)
(* mapping has at most 5 entries, and each of its name/value pairs is one  *)
(* of the first 5 entries of foodNutrients.                                *)
(***************************************************************************)
C5_AtMostFiveNutrients ==
    Called("extract") =>
        LET given == call.args[1].foodNutrients
            got   == call.result.value
        IN  /\ Len(got) <= 5
            /\ \A k \in 1..Len(got) :
                  \E i \in 1..Min(5, Len(given)) :
                      given[i] = Nutrient(got[k][1], got[k][2])

C5_Witness ==
    /\ Called("extract")
    /\ Len(call.args[1].foodNutrients) > 5
    /\ call.args[1].foodNutrients[5] # call.args[1].foodNutrients[6]
    /\ Len(call.result.value) = 2
    /\ \A k \in 1..Len(call.result.value) :
          Nutrient(call.result.value[k][1], call.result.value[k][2])
              # call.args[1].foodNutrients[6]

(***************************************************************************)
(* The steps of the last run, by tab and by operation                      *)
(***************************************************************************)
StepsOf(tab) == {i \in 1..Len(trace) : trace[i].tab = tab}

StepsOp(tab, op) == {i \in StepsOf(tab) : trace[i].op = op}

FoodOpsFrom(i) ==
    [k \in 1..Cardinality({j \in StepsOf("food") : j >= i}) |-> trace[i + k - 1].op]

(***************************************************************************)
(* C6: while the food query is empty, a run makes no call of the food      *)
(* flow: no request to the food database, no completion call of the food   *)
(* tab, and the food tab shows nothing.                                    *)
(***************************************************************************)
C6_EmptyQueryIsIdle ==
    (call = NoCall /\ widgets.food_query = "") =>
        /\ StepsOf("food") = {}
        /\ screen.food.view = "idle"
        /\ screen.food.message = ""
        /\ screen.food.options = <<>>
        /\ screen.food.ai_response = ""
        /\ screen.food.chart = <<>>

C6_Witness ==
    /\ call = NoCall
    /\ widgets.food_query = ""
    /\ screen.dark
    /\ StepsOp("meal", "get_ai_insight") # {}
    /\ StepsOf("food") = {}
    /\ screen.food.view = "idle"

(***************************************************************************)
(* C7: the tabs are independent: an interaction with one tab, or a toggle  *)
(* of dark mode, triggers no food-database request and no completion call  *)
(* of another tab, and leaves what the other tabs display unchanged.       *)
(***************************************************************************)
DarkToggled == widgets'.dark_mode # widgets.dark_mode

ExerciseActed ==
    \/ widgets'.weight # widgets.weight
    \/ widgets'.exercise # widgets.exercise
    \/ widgets'.duration # widgets.duration
    \/ \E i \in 1..Len(trace') : trace'[i].tab = "exercise"

MealActed ==
    \/ widgets'.daily_calories # widgets.daily_calories
    \/ widgets'.diet_type # widgets.diet_type
    \/ \E i \in 1..Len(trace') : trace'[i].tab = "meal"

FoodActed ==
    \/ widgets'.food_query # widgets.food_query
    \/ /\ widgets'.select.options = widgets.select.options
       /\ widgets'.select.index # widgets.select.index

NoCallsOf(tab) ==
    \A i \in 1..Len(trace') :
        trace'[i].tab = tab => trace'[i].op \notin {"requests.get", "get_ai_insight"}

C7_TabsIndependent ==
    [][/\ (DarkToggled \/ ExerciseActed \/ MealActed) =>
              NoCallsOf("food") /\ screen'.food = screen.food
       /\ (DarkToggled \/ FoodActed \/ MealActed) =>
              screen'.exercise = screen.exercise
       /\ (DarkToggled \/ FoodActed \/ ExerciseActed) =>
              NoCallsOf("meal") /\ screen'.meal = screen.meal]_vars

(***************************************************************************)
(* C8: in a run of the food tab the food-database lookup comes first;      *)
(* the nutrient extraction, the completion call and the chart follow in    *)
(* that order, each once, and only when the lookup's result is non-empty   *)
(* and a food is selected; the prompt of the completion call embeds the    *)
(* selected description and the extracted nutrients. When the lookup       *)
(* returns an empty list none of the three runs and the "no results"       *)
(* message is shown.                                                       *)
(***************************************************************************)
C8_FoodTabOrder ==
    \A i \in StepsOp("food", "search_food_usda") :
        /\ StepsOp("food", "requests.get") = {1}
        /\ StepsOp("food", "search_food_usda") = {i}
        /\ \A j \in 2..(i - 1) : trace[j].op = "response.json"
        /\ IF Len(trace[i].out) > 0 /\ screen.food.selected # ""
           THEN /\ FoodOpsFrom(i + 1) = <<"extract", "get_ai_insight", "plot_nutrition">>
                /\ Contains(trace[i + 2].arg, screen.food.selected)
                /\ Contains(trace[i + 2].arg, DictStr(trace[i + 1].out))
                /\ screen.food.ai_response = trace[i + 2].out
                /\ screen.food.chart = trace[i + 3].out
           ELSE /\ FoodOpsFrom(i + 1) = <<>>
                /\ screen.food.ai_response = ""
                /\ screen.food.chart = <<>>
        /\ Len(trace[i].out) = 0 =>
              /\ screen.food.view = "no results"
              /\ screen.food.message = "No results found. Try another food name."

C8_Witness ==
    /\ call = NoCall
    /\ Len(trace) >= 6
    /\ FoodOpsFrom(1) = <<"requests.get", "response.json", "search_food_usda",
                          "extract", "get_ai_insight", "plot_nutrition">>
    /\ screen.food.selected = "Apple"
    /\ trace[5].arg = "Give me a quick analysis of Apple with these nutrients: "
                      \o "{'Energy': 52}"
    /\ Len(screen.food.chart) > 0

(***************************************************************************)
(* C9: a fault of the food-database request (the transport failing, a body *)
(* that does not parse) is not caught: it leaves the lookup and ends the   *)
(* run; the run shows no "no results" message, makes no completion call    *)
(* and renders no chart.                                                   *)
(***************************************************************************)
C9_LookupFaultPropagates ==
    \A i \in StepsOp("food", "requests.get") \cup StepsOp("food", "response.json") :
        trace[i].raised # "" =>
            /\ screen.exception = trace[i].raised
            /\ i = Len(trace)
            /\ screen.food.view # "no results"
            /\ screen.food.message = ""
            /\ screen.food.ai_response = ""
            /\ screen.food.chart = <<>>
            /\ screen.exercise = ""
            /\ screen.meal = ""

C9_Witness ==
    /\ call = NoCall
    /\ Len(trace) = 2
    /\ trace[2].op = "response.json"
    /\ trace[2].raised = "JSONDecodeError"
    /\ screen.exception = "JSONDecodeError"
    /\ screen.food.view = "idle"

(***************************************************************************)
(* C10: the selection control offers the distinct descriptions of the      *)
(* returned records, which can be fewer than the count the "Found N        *)
(* results" message gives; the record whose nutrients are extracted, sent  *)
(* and charted is a record of the current result list whose description    *)
(* is the selected option, and the last such record of the list.           *)
(***************************************************************************)
C10_SelectOffersDistinct ==
    \A i \in StepsOp("food", "search_food_usda") :
        Len(trace[i].out) > 0 =>
            /\ \A a, b \in 1..Len(screen.food.options) :
                  a # b => screen.food.options[a] # screen.food.options[b]
            /\ {screen.food.options[a] : a \in 1..Len(screen.food.options)}
                  = {trace[i].out[k].description : k \in 1..Len(trace[i].out)}
            /\ Len(screen.food.options) <= Len(trace[i].out)
            /\ StartsWith(screen.food.message,
                          "Found " \o IntStr(Len(trace[i].out)) \o " results")
            /\ \E a \in 1..Len(screen.food.options) :
                  screen.food.selected = screen.food.options[a]
            /\ \A j \in StepsOp("food", "extract") :
                  /\ \E k \in 1..Len(trace[i].out) :
                        /\ trace[i].out[k] = trace[j].arg
                        /\ \A m \in (k + 1)..Len(trace[i].out) :
                              trace[i].out[m].description # screen.food.selected
                  /\ trace[j].arg.description = screen.food.selected
                  /\ trace[j].out = ExtractNutrients(trace[j].arg)
                  /\ screen.food.nutrients = trace[j].out
                  /\ Contains(trace[j + 1].arg, DictStr(trace[j].out))
                  /\ screen.food.chart = plot_nutrition(screen.food.selected, trace[j].out)

C10_Witness ==
    /\ call = NoCall
    /\ Len(trace) >= 4
    /\ trace[3].op = "search_food_usda"
    /\ Len(trace[3].out) = 2
    /\ trace[3].out[1].description = trace[3].out[2].description
    /\ trace[3].out[1] # trace[3].out[2]
    /\ Len(screen.food.options) = 1
    /\ StartsWith(screen.food.message, "Found 2 results")
    /\ trace[4].op = "extract"
    /\ trace[4].arg = trace[3].out[2]

=============================================================================
